---------------------------- MODULE Spec2Model ----------------------------
(***************************************************************************)
(* Model of src/process/unix/reap.rs: the Reaper future, which multiplexes *)
(* a SIGCHLD notification stream with non-blocking waits on a child        *)
(* process, and hands the child to a shared orphan queue when dropped.     *)
(*                                                                         *)
(* The Reapers of a run share one orphan queue and one SIGCHLD broadcast.   *)
(* The body of poll is split at the three calls it makes (signal.poll_next,*)
(* orphan_queue.reap_orphans, inner.try_wait) so that the child's exit and *)
(* the delivery of its signal interleave with them.                        *)
(***************************************************************************)
EXTENDS Naturals, Sequences, FiniteSets

\* ------------------------------------------------------------------ bounds
MaxCount == 4       \* the mock counters saturate here
MaxKills == 1       \* kill() calls made by the owners
MaxFaults == 1      \* failures the environment may inject
MaxSpare == 1       \* SIGCHLDs raised by processes other than the children
MaxIdlePolls == 1   \* polls by the executor without a wakeup
MaxScript == 5      \* items of a MockStream's script
MaxUntil == 3       \* num_wait_until_status of a MockWait

Reapers == {"a", "b"}    \* the Reapers a run may construct
ExitStatuses == {"exit0", "exit1"}
Errors == {"EIO", "ECHILD"}

VARIABLES
    inner,                \* Reaper.inner: "Some" or "None"
    dropped,              \* the Reaper has been dropped
    pc,                   \* position of the Reaper inside poll
    registered_interest,  \* the local of poll
    ret,                  \* what the last finished poll returned
    killRet,              \* what the last kill() returned
    child,                \* <<>> while running, <<status>> once exited
    handleKill,           \* what the handle's own kill returned last
    sigchld,              \* a SIGCHLD is raised and not yet broadcast
    notified,             \* the cursor holds an unconsumed notification
    armed,                \* the cursor will wake the task at the next one
    woken,                \* the task was woken and waits for the executor
    mode,                 \* the cursor: "ok", "closed" or "flood"
    queue,                \* handles the orphan queue holds
    all_enqueued,         \* every handle ever pushed, in order
    total_polls,          \* MockStream.total_polls
    total_reaps,          \* MockQueue.total_reaps
    total_waits,          \* MockWait.total_waits
    total_kills,          \* MockWait.total_kills
    lastSignal,           \* outcome of the last poll_next of this invocation
    lastWait,             \* outcome of the Reaper's try_wait since that poll_next
    stale,                \* this invocation's last try_wait found the child
                          \* running after a poll_next that was Ready
    callPolls,            \* poll_next calls of the current invocation of poll
    callReaps,            \* reap_orphans calls of the current invocation
    callWaits,            \* try_wait calls of the current invocation
    signalFailed,         \* some poll_next of this Reaper returned an error
    values,               \* MockStream.values: what is left of the script
    mock,                 \* <<>>, or the test doubles' fixture of the Reaper:
                          \* <<num_wait_until_status, status, script>>
    testPolls,            \* grim.poll() calls the test has made
    faults,               \* failures left to inject
    killsLeft,            \* kill() calls left
    spare,                \* foreign SIGCHLDs left
    idlePolls             \* unwoken polls left

vars == <<inner, dropped, pc, registered_interest, ret, killRet, child,
          handleKill, sigchld, notified, armed, woken, mode, queue,
          all_enqueued, total_polls, total_reaps, total_waits, total_kills,
          lastSignal, lastWait, stale, callPolls, callReaps, callWaits,
          signalFailed, values, mock, testPolls, faults, killsLeft, spare,
          idlePolls>>

\* ----------------------------------------------------------------- values
None == <<>>
Some(x) == <<x>>
Ok(x) == <<"Ok", x>>
Err(e) == <<"Err", e>>
Pending == <<"Pending">>
Ready(x) == <<"Ready", x>>
NotPolled == <<"NotPolled">>
NoCall == <<"NoCall">>

Bump(n) == IF n < MaxCount THEN n + 1 ELSE n


\* ------------------------------------------------- the Wait handle (orphan.rs)
\* MockWait::try_wait: the status at the call numbered num_wait_until_status
\* (counting from 0) and at no other call.
MockTryWait(h) ==
    Ok(IF mock[h][1] = total_waits[h] THEN Some(mock[h][2]) ELSE None)

\* try_wait: Ok(None) while the child runs, Ok(Some(status)) with the same
\* status at every call once it has exited, or a failure of the query.
\* Each element is <<result, faults it costs>>.  Under the test doubles
\* the handle is a MockWait.
TryWaitOutcomes(h) ==
    IF mock[h] # <<>>
       THEN {<<MockTryWait(h), 0>>}
       ELSE {<<Ok(child[h]), 0>>} \cup
            (IF faults > 0 THEN {<<Err(e), 1>> : e \in Errors} ELSE {})

IsErr(w) == w[1] = "Err"
IsExited(w) == w[1] = "Ok" /\ w[2] # None

\* kill: a request that succeeds or fails; it does not confirm the exit.
\* MockWait::kill returns Ok(()).
KillOutcomes(h) ==
    IF mock[h] # <<>> THEN {Ok("unit")}
    ELSE {Ok("unit")} \cup {Err(e) : e \in Errors}

\* --------------------------------------------- the signal stream (cursor)
StreamItem == Ready(Some(Ok("SIGCHLD")))
StreamEnd == Ready(None)
StreamErr(e) == Ready(Some(Err(e)))

\* MockStream::poll_next: values.remove(0), which panics on an empty Vec;
\* Some(()) is Ready(Some(Ok(()))), None is Pending.
Panicked == <<"Panic">>
MockPollNext(r) ==
    IF values[r] = <<>> THEN Panicked
    ELSE IF Head(values[r]) # None THEN StreamItem
    ELSE Pending

\* poll_next on the cursor of r.  Each element is
\* <<outcome, cursor mode afterwards, faults it costs>>.
PollNextOutcomes(r) ==
    CASE mode[r] = "mock" -> {<<MockPollNext(r), "mock", 0>>}
      [] mode[r] = "closed" -> {<<StreamEnd, "closed", 0>>}
      [] mode[r] = "flood" -> {<<StreamItem, "flood", 0>>}
      [] OTHER ->
            {<<IF notified[r] THEN StreamItem ELSE Pending, "ok", 0>>} \cup
            (IF faults > 0
                THEN {<<StreamErr(e), "ok", 1>> : e \in Errors} \cup
                     {<<StreamEnd, "closed", 1>>, <<StreamItem, "flood", 1>>}
                ELSE {})

\* Poll::is_ready
IsReady(p) == p[1] = "Ready"

\* (mutant) the error of the stream is not propagated
SignalNeverBreaks(p) == FALSE

\* The ? applied to Poll<Option<io::Result<_>>>: only Ready(Some(Err)) leaves.
SignalBreaks(p) == IsReady(p) /\ p[2] # None /\ p[2][1][1] = "Err"
SignalError(p) == p[2][1]

\* --------------------------------------------------- the orphan queue
\* reap_orphans: one try_wait per handle held; a handle that has exited, or
\* whose wait fails (the handles of bad), is removed and dropped.
ReapOrphans(bad) ==
    /\ queue' = {h \in queue : child[h] = None /\ h \notin bad}
    /\ total_reaps' = Bump(total_reaps)

\* push_orphan
PushOrphan(h) ==
    /\ queue' = queue \cup {h}
    /\ all_enqueued' = Append(all_enqueued, h)

\* ----------------------------------------------------------- Reaper::new
\* The state after Reaper::new for each Reaper of R, with the environment's
\* budgets: f failures, k kills, s foreign SIGCHLDs, i unwoken polls.  fx is
\* <<>>, or the fixture <<num_wait_until_status, status, script>> of the
\* MockWait and MockStream the Reapers are built on.
InitFixture(R, f, k, s, i, fx) ==
    /\ inner = [r \in R |-> "Some"]
    /\ dropped = [r \in R |-> FALSE]
    /\ pc = [r \in R |-> "idle"]
    /\ registered_interest = [r \in R |-> FALSE]
    /\ ret = [r \in R |-> NotPolled]
    /\ killRet = [r \in R |-> NoCall]
    /\ child = [r \in R |-> None]
    /\ handleKill = [r \in R |-> NoCall]
    /\ sigchld = FALSE
    /\ notified = [r \in R |-> FALSE]
    /\ armed = [r \in R |-> FALSE]
    /\ woken = [r \in R |-> FALSE]
    /\ mode = [r \in R |-> IF fx = <<>> THEN "ok" ELSE "mock"]
    /\ queue = {}
    /\ all_enqueued = <<>>
    /\ total_polls = [r \in R |-> 0]
    /\ total_reaps = 0
    /\ total_waits = [r \in R |-> 0]
    /\ total_kills = [r \in R |-> 0]
    /\ lastSignal = [r \in R |-> NoCall]
    /\ lastWait = [r \in R |-> NoCall]
    /\ stale = [r \in R |-> FALSE]
    /\ callPolls = [r \in R |-> 0]
    /\ callReaps = [r \in R |-> 0]
    /\ callWaits = [r \in R |-> 0]
    /\ signalFailed = [r \in R |-> FALSE]
    /\ values = [r \in R |-> IF fx = <<>> THEN <<>> ELSE fx[3]]
    /\ mock = [r \in R |-> fx]
    /\ testPolls = 0
    /\ faults = f
    /\ killsLeft = k
    /\ spare = s
    /\ idlePolls = i

\* Reapers on a live child, the SIGCHLD broadcast and the shared queue.
InitWith(R, f, k, s, i) == InitFixture(R, f, k, s, i, <<>>)

Init == InitWith({"a"}, MaxFaults, MaxKills, MaxSpare, MaxIdlePolls)

\* The Reapers constructed in this run.
Built == DOMAIN inner

\* ---------------------------------------------------------- Reaper::poll
\* The executor calls poll.
PollEnter(r) ==
    /\ ~dropped[r]
    /\ pc[r] = "idle"
    /\ pc' = [pc EXCEPT ![r] = "signal"]
    /\ woken' = [woken EXCEPT ![r] = FALSE]
    /\ lastSignal' = [lastSignal EXCEPT ![r] = NoCall]
    /\ lastWait' = [lastWait EXCEPT ![r] = NoCall]
    /\ stale' = [stale EXCEPT ![r] = FALSE]
    /\ callPolls' = [callPolls EXCEPT ![r] = 0]
    /\ callReaps' = [callReaps EXCEPT ![r] = 0]
    /\ callWaits' = [callWaits EXCEPT ![r] = 0]
    /\ UNCHANGED <<signalFailed, values, mock>>
    /\ UNCHANGED <<inner, dropped, registered_interest, ret, killRet>>
    /\ UNCHANGED <<child, handleKill, total_waits, total_kills>>
    /\ UNCHANGED <<sigchld, notified, armed, mode, total_polls>>
    /\ UNCHANGED <<queue, all_enqueued, total_reaps>>
    /\ UNCHANGED <<faults, killsLeft, spare>>

\* The task was woken, or was spawned and never polled.
Schedule(r) ==
    /\ woken[r] \/ ret[r] = NotPolled
    /\ PollEnter(r)
    /\ UNCHANGED <<idlePolls, testPolls>>

\* The executor polls a task nothing woke.
IdlePoll(r) ==
    /\ ~woken[r]
    /\ ret[r] # NotPolled
    /\ idlePolls > 0
    /\ idlePolls' = idlePolls - 1
    /\ PollEnter(r)
    /\ UNCHANGED testPolls

\* A test calls grim.poll().
TestPoll(r) ==
    /\ mock[r] # <<>>
    /\ ret[r] # Panicked
    /\ testPolls' = testPolls + 1
    /\ PollEnter(r)
    /\ UNCHANGED idlePolls

\* (mutant) interest is never taken as registered
RegisteredInterestNever(p) == FALSE

\* (mutant) interest is taken as registered whatever the stream returned
RegisteredInterestAlways(p) == TRUE

\* let registered_interest = !...is_ready()
RegisteredInterest(p) == ~IsReady(p)

\* (mutant) poll goes from the stream straight to the try_wait
AfterSignalSkipsSweep(p) == "wait"

\* When poll_next did not fail, the next statement of the loop body is
\* self.orphan_queue.reap_orphans().
AfterSignal(p) == "reap"

\* let registered_interest = !self.signal().poll_next(cx)?.is_ready();
PollSignal(r) ==
    /\ pc[r] = "signal"
    /\ \E o \in PollNextOutcomes(r) :
         /\ total_polls' = [total_polls EXCEPT ![r] = Bump(@)]
         /\ faults' = faults - o[3]
         /\ mode' = [mode EXCEPT ![r] = o[2]]
         /\ notified' = [notified EXCEPT ![r] =
                            IF o[1] = StreamItem /\ o[2] = "ok" THEN FALSE ELSE @]
         /\ armed' = [armed EXCEPT ![r] = IF o[1] = Pending THEN TRUE ELSE @]
         /\ lastSignal' = [lastSignal EXCEPT ![r] = o[1]]
         /\ lastWait' = [lastWait EXCEPT ![r] = NoCall]
         /\ signalFailed' = [signalFailed EXCEPT ![r] =
                                @ \/ \E e \in Errors : o[1] = StreamErr(e)]
         /\ IF o[1] = Panicked
               THEN /\ ret' = [ret EXCEPT ![r] = Panicked]
                    /\ pc' = [pc EXCEPT ![r] = "idle"]
                    /\ UNCHANGED registered_interest
               ELSE IF SignalBreaks(o[1])
               THEN /\ ret' = [ret EXCEPT ![r] = Ready(SignalError(o[1]))]
                    /\ pc' = [pc EXCEPT ![r] = "idle"]
                    /\ UNCHANGED registered_interest
               ELSE /\ registered_interest' =
                          [registered_interest EXCEPT ![r] = RegisteredInterest(o[1])]
                    /\ pc' = [pc EXCEPT ![r] = AfterSignal(o[1])]
                    /\ UNCHANGED ret
    /\ UNCHANGED <<inner, dropped, killRet>>
    /\ UNCHANGED <<child, handleKill, total_waits, total_kills>>
    /\ callPolls' = [callPolls EXCEPT ![r] = Bump(@)]
    /\ values' = [values EXCEPT ![r] = IF @ = <<>> THEN @ ELSE Tail(@)]
    /\ UNCHANGED <<sigchld, woken, stale, callReaps, callWaits, mock, testPolls>>
    /\ UNCHANGED <<queue, all_enqueued, total_reaps>>
    /\ UNCHANGED <<killsLeft, spare, idlePolls>>

\* self.orphan_queue.reap_orphans();
PollReap(r) ==
    /\ pc[r] = "reap"
    /\ \E bad \in SUBSET queue :
         /\ Cardinality(bad) <= faults
         /\ faults' = faults - Cardinality(bad)
         /\ ReapOrphans(bad)
    /\ total_waits' = [h \in Built |->
                          IF h \in queue THEN Bump(total_waits[h]) ELSE total_waits[h]]
    /\ callReaps' = [callReaps EXCEPT ![r] = Bump(@)]
    /\ pc' = [pc EXCEPT ![r] = "wait"]
    /\ UNCHANGED <<inner, dropped, registered_interest, ret, killRet>>
    /\ UNCHANGED <<child, handleKill, total_kills>>
    /\ UNCHANGED <<sigchld, notified, armed, woken, mode, total_polls>>
    /\ UNCHANGED all_enqueued
    /\ UNCHANGED <<lastSignal, lastWait, stale>>
    /\ UNCHANGED <<callPolls, callWaits, signalFailed, values, mock, testPolls>>
    /\ UNCHANGED <<killsLeft, spare, idlePolls>>

\* (mutant) Pending whenever the child still runs
AfterWaitNoLoop(w, interest) ==
    IF w[1] = "Err" THEN <<"return", Ready(w)>>
    ELSE IF w[2] # None THEN <<"return", Ready(Ok(w[2][1]))>>
    ELSE <<"return", Pending>>

\* (mutant) the interest is looked at before the status
AfterWaitInterestFirst(w, interest) ==
    IF w[1] = "Err" THEN <<"return", Ready(w)>>
    ELSE IF interest THEN <<"return", Pending>>
    ELSE IF w[2] # None THEN <<"return", Ready(Ok(w[2][1]))>>
    ELSE <<"continue">>

\* (mutant) a failed wait is taken as a child still running
AfterWaitSwallowsError(w, interest) ==
    IF w[1] = "Ok" /\ w[2] # None THEN <<"return", Ready(Ok(w[2][1]))>>
    ELSE IF interest THEN <<"return", Pending>>
    ELSE <<"continue">>

\* (mutant) poll takes the handle out of the slot once it has the status
InnerTakenOnExit(slot, w) == IF w[1] = "Ok" /\ w[2] # None THEN "None" ELSE slot

\* self.inner().as_mut().unwrap(): the handle is borrowed where it is; the
\* slot keeps it whatever try_wait returns.
InnerAfterWait(slot, w) == slot

\* What poll does with the result w of try_wait: <<"return", value>> or
\* <<"continue">>.
AfterWait(w, interest) ==
    IF IsErr(w) THEN <<"return", Ready(w)>>
    ELSE IF IsExited(w) THEN <<"return", Ready(Ok(w[2][1]))>>
    ELSE IF interest THEN <<"return", Pending>>
    ELSE <<"continue">>

\* if let Some(status) = self.inner().as_mut().unwrap().try_wait()? { .. }
\* if registered_interest { return Pending } else { continue }
PollWait(r) ==
    /\ pc[r] = "wait"
    /\ IF inner[r] = "None"
          THEN /\ ret' = [ret EXCEPT ![r] = Panicked]
               /\ pc' = [pc EXCEPT ![r] = "idle"]
               /\ UNCHANGED <<inner, total_waits, faults, lastWait, stale, callWaits>>
          ELSE \E o \in TryWaitOutcomes(r) :
                 LET next == AfterWait(o[1], registered_interest[r]) IN
                 /\ total_waits' = [total_waits EXCEPT ![r] = Bump(@)]
                 /\ callWaits' = [callWaits EXCEPT ![r] = Bump(@)]
                 /\ inner' = [inner EXCEPT ![r] = InnerAfterWait(@, o[1])]
                 /\ faults' = faults - o[2]
                 /\ lastWait' = [lastWait EXCEPT ![r] = o[1]]
                 /\ stale' = [stale EXCEPT ![r] =
                                 lastSignal[r][1] = "Ready" /\ o[1] = Ok(None)]
                 /\ IF next[1] = "return"
                       THEN /\ ret' = [ret EXCEPT ![r] = next[2]]
                            /\ pc' = [pc EXCEPT ![r] = "idle"]
                       ELSE /\ pc' = [pc EXCEPT ![r] = "signal"]
                            /\ UNCHANGED ret
    /\ UNCHANGED <<dropped, registered_interest, killRet>>
    /\ UNCHANGED <<child, handleKill, total_kills>>
    /\ UNCHANGED <<sigchld, notified, armed, woken, mode, total_polls>>
    /\ UNCHANGED <<queue, all_enqueued, total_reaps>>
    /\ UNCHANGED <<lastSignal, callPolls, callReaps, signalFailed, values, mock, testPolls>>
    /\ UNCHANGED <<killsLeft, spare, idlePolls>>

\* ---------------------------------------------------------- Reaper::kill
\* (mutant) the result of the handle's kill is discarded
KillReturnsOk(res) == Ok("unit")

\* self.inner.as_mut().unwrap().kill()
KillReturn(res) == res

Kill(r) ==
    /\ ~dropped[r]
    /\ pc[r] = "idle"
    /\ inner[r] = "Some"
    /\ killsLeft > 0
    /\ killsLeft' = killsLeft - 1
    /\ \E res \in KillOutcomes(r) :
         /\ handleKill' = [handleKill EXCEPT ![r] = res]
         /\ killRet' = [killRet EXCEPT ![r] = KillReturn(res)]
    /\ total_kills' = [total_kills EXCEPT ![r] = @ + 1]
    /\ UNCHANGED <<inner, dropped, pc, registered_interest, ret>>
    /\ UNCHANGED <<child, total_waits>>
    /\ UNCHANGED <<sigchld, notified, armed, woken, mode, total_polls>>
    /\ UNCHANGED <<queue, all_enqueued, total_reaps>>
    /\ UNCHANGED <<lastSignal, lastWait, stale>>
    /\ UNCHANGED <<callPolls, callReaps, callWaits, signalFailed, values, mock, testPolls>>
    /\ UNCHANGED <<faults, spare, idlePolls>>

\* ---------------------------------------------------------- Reaper::drop
\* (mutant) drop never returns early
DropReturnsNever(w) == FALSE

\* (mutant) drop also returns early when the wait fails
DropReturnsOnError(w) == w # Ok(None)

\* if let Ok(Some(_)) = self.inner.as_mut().unwrap().try_wait() { return; }
DropReturns(w) == IsExited(w)

\* (mutant) drop waits a second time before it gives the handle up
DropWaitsTwice(n) == Bump(Bump(n))

\* drop calls try_wait once; n is the handle's total_waits.
DropWaits(n) == Bump(n)

Drop(r) ==
    /\ ~dropped[r]
    /\ pc[r] = "idle"
    /\ inner[r] = "Some"
    /\ \E o \in TryWaitOutcomes(r) :
         /\ total_waits' = [total_waits EXCEPT ![r] = DropWaits(@)]
         /\ faults' = faults - o[2]
         /\ lastWait' = [lastWait EXCEPT ![r] = o[1]]
         /\ IF DropReturns(o[1])
               THEN UNCHANGED <<inner, queue, all_enqueued>>
               ELSE /\ inner' = [inner EXCEPT ![r] = "None"]
                    /\ PushOrphan(r)
    /\ dropped' = [dropped EXCEPT ![r] = TRUE]
    \* the cursor and the task go with the Reaper
    /\ notified' = [notified EXCEPT ![r] = FALSE]
    /\ armed' = [armed EXCEPT ![r] = FALSE]
    /\ woken' = [woken EXCEPT ![r] = FALSE]
    /\ UNCHANGED <<pc, registered_interest, ret, killRet>>
    /\ UNCHANGED <<child, handleKill, total_kills>>
    /\ UNCHANGED <<sigchld, mode, total_polls>>
    /\ UNCHANGED total_reaps
    /\ UNCHANGED <<lastSignal, stale>>
    /\ UNCHANGED <<callPolls, callReaps, callWaits, signalFailed, values, mock, testPolls>>
    /\ UNCHANGED <<killsLeft, spare, idlePolls>>

\* ------------------------------------------------------- the environment
\* The child of handle h exits; the kernel raises SIGCHLD.
ChildExit(h) ==
    /\ child[h] = None
    /\ \E s \in ExitStatuses : child' = [child EXCEPT ![h] = Some(s)]
    /\ sigchld' = TRUE
    /\ UNCHANGED <<inner, dropped, pc, registered_interest, ret, killRet>>
    /\ UNCHANGED <<handleKill, total_waits, total_kills>>
    /\ UNCHANGED <<notified, armed, woken, mode, total_polls>>
    /\ UNCHANGED <<queue, all_enqueued, total_reaps>>
    /\ UNCHANGED <<lastSignal, lastWait, stale>>
    /\ UNCHANGED <<callPolls, callReaps, callWaits, signalFailed, values, mock, testPolls>>
    /\ UNCHANGED <<faults, killsLeft, spare, idlePolls>>

\* Some other process raises SIGCHLD.
OtherSigchld ==
    /\ spare > 0
    /\ ~sigchld
    /\ spare' = spare - 1
    /\ sigchld' = TRUE
    /\ UNCHANGED <<inner, dropped, pc, registered_interest, ret, killRet>>
    /\ UNCHANGED <<child, handleKill, total_waits, total_kills>>
    /\ UNCHANGED <<notified, armed, woken, mode, total_polls>>
    /\ UNCHANGED <<queue, all_enqueued, total_reaps>>
    /\ UNCHANGED <<lastSignal, lastWait, stale>>
    /\ UNCHANGED <<callPolls, callReaps, callWaits, signalFailed, values, mock, testPolls>>
    /\ UNCHANGED <<faults, killsLeft, idlePolls>>

\* The raised SIGCHLD (one, however many were raised) reaches every cursor:
\* it is held for the next poll_next, and an armed task is woken.
Deliver ==
    /\ sigchld
    /\ sigchld' = FALSE
    /\ notified' = [r \in Built |-> ~dropped[r]]
    /\ woken' = [r \in Built |-> woken[r] \/ armed[r]]
    /\ armed' = [r \in Built |-> FALSE]
    /\ UNCHANGED <<inner, dropped, pc, registered_interest, ret, killRet>>
    /\ UNCHANGED <<child, handleKill, total_waits, total_kills>>
    /\ UNCHANGED <<mode, total_polls>>
    /\ UNCHANGED <<queue, all_enqueued, total_reaps>>
    /\ UNCHANGED <<lastSignal, lastWait, stale>>
    /\ UNCHANGED <<callPolls, callReaps, callWaits, signalFailed, values, mock, testPolls>>
    /\ UNCHANGED <<faults, killsLeft, spare, idlePolls>>

Next ==
    \/ \E r \in Built : Schedule(r)
    \/ \E r \in Built : IdlePoll(r)
    \/ \E r \in Built : PollSignal(r)
    \/ \E r \in Built : PollReap(r)
    \/ \E r \in Built : PollWait(r)
    \/ \E r \in Built : Kill(r)
    \/ \E r \in Built : Drop(r)
    \/ \E h \in Built : ChildExit(h)
    \/ OtherSigchld
    \/ Deliver

Spec == Init /\ [][Next]_vars

\* ------------------------------------------------------------- fairness
\* A poll that was entered runs to its return; the executor polls a task that
\* was woken or never polled; a raised SIGCHLD is delivered.  Nothing obliges
\* a child to exit, an owner to kill or drop, or the executor to poll a task
\* nothing woke.
Fairness ==
    /\ \A r \in Reapers : WF_vars(r \in Built /\ Schedule(r))
    /\ \A r \in Reapers : WF_vars(r \in Built /\ PollSignal(r))
    /\ \A r \in Reapers : WF_vars(r \in Built /\ PollReap(r))
    /\ \A r \in Reapers : WF_vars(r \in Built /\ PollWait(r))
    /\ WF_vars(Deliver)

\* The environment injects no failure: the stream and the handle honour
\* their contracts.
LiveInit == InitWith({"a"}, 0, MaxKills, MaxSpare, MaxIdlePolls)
LiveSpec == LiveInit /\ [][Next]_vars /\ Fairness

\* The environment may inject failures.
FairSpec == Init /\ [][Next]_vars /\ Fairness

\* ------------------------------------------- several Reapers, one queue
\* Every Reaper of Reapers is built, on the same queue and broadcast; the
\* owners poll, kill and drop them, and the environment may inject failures.
PoolInit == InitWith(Reapers, MaxFaults, MaxKills, 0, 0)

PoolNext ==
    \/ \E r \in Built : Schedule(r)
    \/ \E r \in Built : PollSignal(r)
    \/ \E r \in Built : PollReap(r)
    \/ \E r \in Built : PollWait(r)
    \/ \E r \in Built : Kill(r)
    \/ \E r \in Built : Drop(r)
    \/ \E h \in Built : ChildExit(h)
    \/ Deliver

PoolSpec == PoolInit /\ [][PoolNext]_vars

\* The same Reapers with no injected failure and no kill, under the
\* executor's fairness.
LivePoolInit == InitWith(Reapers, 0, 0, 0, 0)

LivePoolNext ==
    \/ \E r \in Built : Schedule(r)
    \/ \E r \in Built : PollSignal(r)
    \/ \E r \in Built : PollReap(r)
    \/ \E r \in Built : PollWait(r)
    \/ \E r \in Built : Drop(r)
    \/ \E h \in Built : ChildExit(h)
    \/ Deliver

LivePoolSpec == LivePoolInit /\ [][LivePoolNext]_vars /\ Fairness

\* ------------------------------------------------- the tests (mod test)
\* The scripts a MockStream is built on: None is Pending, Some(()) an item.
Scripts == UNION {[1..n -> {None, Some("unit")}] : n \in 0..MaxScript}

\* One Reaper on a MockWait, a MockQueue and a MockStream.
TraceInit ==
    \E n \in 0..MaxUntil, s \in ExitStatuses, v \in Scripts :
        InitFixture({"a"}, 0, MaxKills, 0, 0, <<n, s, v>>)

\* What a test does with its Reaper: poll it, kill it, drop it.
TraceNext ==
    \/ \E r \in Built : TestPoll(r)
    \/ \E r \in Built : PollSignal(r)
    \/ \E r \in Built : PollReap(r)
    \/ \E r \in Built : PollWait(r)
    \/ \E r \in Built : Kill(r)
    \/ \E r \in Built : Drop(r)

TraceSpec == TraceInit /\ [][TraceNext]_vars

\* ================================================================= claims

\* The Reaper r is suspended: its last poll returned Pending and no poll runs.
Suspended(r) == ~dropped[r] /\ pc[r] = "idle" /\ ret[r] = Pending
Exited(h) == child[h] # None
\* The last poll of r returned Ready(Ok(status)) with the status of its child.
Resolved(r) == Exited(r) /\ ret[r] = Ready(Ok(child[r][1]))

\* C1 (safety part): a suspended Reaper whose child has exited has a wakeup
\* pending, or is armed with the SIGCHLD of the exit still to be delivered.
NoLostWakeup ==
    \A r \in Built :
        (Suspended(r) /\ Exited(r)) => (woken[r] \/ (armed[r] /\ sigchld))

\* C1: no missed wakeup.  With a stream and an executor that honour their
\* contracts, wherever the child's exit and its SIGCHLD fall among the steps
\* of poll, no state has the child exited, the Reaper suspended and no wakeup
\* armed or pending, and a Reaper that is not dropped eventually returns
\* Ready(Ok(status)) with the status of its child.
C1_NoMissedWakeup ==
    /\ []NoLostWakeup
    /\ \A r \in Reapers :
          (r \in Built /\ Exited(r))
             ~> (r \in Built /\ (dropped[r] \/ Resolved(r)))

\* C1 witness: the Reaper was suspended, was woken by the SIGCHLD of its own
\* child (no foreign signal, no unwoken poll) and returned the status.
C1_Witness ==
    /\ ~dropped["a"]
    /\ Resolved("a")
    /\ total_polls["a"] >= 2
    /\ spare = MaxSpare
    /\ idlePolls = MaxIdlePolls

\* What the stream and the handle can return, written out for the claims.
StreamErrs == {StreamErr(e) : e \in Errors}
StreamReadies == {StreamItem, StreamEnd}
WaitErrs == {Err(e) : e \in Errors}
WaitExits == {Ok(Some(s)) : s \in ExitStatuses}
StillRunning == Ok(None)

\* How often handle h was pushed into the orphan queue.
Pushes(h) == Cardinality({i \in DOMAIN all_enqueued : all_enqueued[i] = h})

\* C2 as stated: poll returns Pending only after a poll_next that returned
\* Pending and a try_wait after it that returned Ok(None); and an invocation
\* in which poll_next was Ready and try_wait then found the child running
\* polls the stream and the child once more before it returns.
C2_Original ==
    \A r \in Built :
        /\ Suspended(r) => (lastSignal[r] = Pending /\ lastWait[r] = StillRunning)
        /\ (pc[r] = "idle" /\ ~dropped[r]) => ~stale[r]

\* C2 as amended: poll returns Pending only after a poll_next that returned
\* Pending and a try_wait after it that returned Ok(None).  When poll_next was
\* Ready and try_wait then finds the child running, poll does not return: it
\* goes back to poll the stream, and it polls the child again unless that
\* poll_next reports an error, which ends the invocation with Ready(Err).
C2_PendingOnlyWhenRegistered ==
    /\ [](\A r \in Built :
            Suspended(r) => (lastSignal[r] = Pending /\ lastWait[r] = StillRunning))
    /\ [][\A r \in Built :
            (pc[r] = "wait" /\ lastSignal[r] \in StreamReadies
                /\ lastWait'[r] = StillRunning)
               => (pc'[r] = "signal" /\ ret'[r] = ret[r])]_vars
    /\ [](\A r \in Built :
            (pc[r] = "idle" /\ ~dropped[r] /\ stale[r])
               => (lastSignal[r] \in StreamErrs /\ ret[r] = Ready(lastSignal[r][2][1])))

\* C2 witness: a SIGCHLD was waiting in the cursor, the child was still
\* running, and poll went round to poll the stream again.
C2_Witness ==
    /\ pc["a"] = "signal"
    /\ stale["a"]
    /\ lastSignal["a"] = StreamItem
    /\ faults = MaxFaults

\* C3: once the try_wait of poll reports Ok(Some(status)), poll returns
\* Ready(Ok(status)) with that status, whether poll_next was Pending or Ready
\* in that iteration; and when the Reaper is then dropped and try_wait
\* reports the same status again, nothing is pushed into the orphan queue.
C3_Resolution ==
    \A r \in Built :
        /\ (~dropped[r] /\ pc[r] = "idle" /\ lastWait[r] \in WaitExits)
              => ret[r] = Ready(Ok(lastWait[r][2][1]))
        /\ (dropped[r] /\ ret[r] \in {Ready(Ok(s)) : s \in ExitStatuses}
               /\ lastWait[r] = Ok(Some(ret[r][2][2])))
              => (Pushes(r) = 0 /\ r \notin queue)

\* C3 witness: resolved with interest registered in that iteration, then
\* dropped.
C3_Witness ==
    /\ dropped["a"]
    /\ Resolved("a")
    /\ lastSignal["a"] = Pending
    /\ lastWait["a"] = Ok(child["a"])

\* C4: after a drop, whatever polls and kills came before, the handle was
\* pushed into the orphan queue exactly once when the try_wait of drop found
\* the child running, and never when it found the child exited.
C4_DropAdoptsOrphan ==
    \A r \in Built :
        dropped[r] =>
            /\ lastWait[r] = StillRunning
                  => (Pushes(r) = 1 /\ inner[r] = "None")
            /\ lastWait[r] \in WaitExits => (Pushes(r) = 0 /\ inner[r] = "Some")

\* C4 witness: dropped after a poll and a kill with the child running.
C4_Witness ==
    /\ dropped["a"]
    /\ lastWait["a"] = StillRunning
    /\ total_kills["a"] = 1
    /\ ret["a"] = Pending
    /\ queue = {"a"}

\* C5 as stated: when the try_wait of drop fails, nothing is pushed into the
\* orphan queue.
C5_Original ==
    \A r \in Built : (dropped[r] /\ lastWait[r] \in WaitErrs) => Pushes(r) = 0

\* C5 as amended: when the try_wait of drop fails, the handle is treated as
\* one still running: it is taken out of the slot and pushed into the orphan
\* queue, once.
C5_DropPushesOnWaitError ==
    \A r \in Built :
        (dropped[r] /\ lastWait[r] \in WaitErrs)
           => (Pushes(r) = 1 /\ r \in queue /\ inner[r] = "None")

C5_Witness ==
    /\ dropped["a"]
    /\ lastWait["a"] \in WaitErrs
    /\ all_enqueued = <<"a">>

\* C6: when poll_next reports an error, poll returns Ready(Err(that error))
\* from that iteration: no sweep, no try_wait, no further iteration.
C6_SignalFailure ==
    [][\A r \in Built :
         (pc[r] = "signal" /\ lastSignal'[r] \in StreamErrs)
            => /\ pc'[r] = "idle"
               /\ ret'[r] = Ready(lastSignal'[r][2][1])
               /\ total_reaps' = total_reaps
               /\ total_waits' = total_waits
               /\ lastWait'[r] = NoCall
               /\ queue' = queue]_vars

\* C6 witness: the error came in a second iteration of the invocation.
C6_Witness ==
    /\ pc["a"] = "idle"
    /\ ~dropped["a"]
    /\ lastSignal["a"] \in StreamErrs
    /\ ret["a"] = Ready(lastSignal["a"][2][1])
    /\ stale["a"]

\* C7: when the try_wait of poll fails, poll returns Ready(Err(that error))
\* in the same invocation, with or without interest registered: it neither
\* loops (no further try_wait) nor returns Pending.
C7_WaitFailure ==
    [][\A r \in Built :
         (pc[r] = "wait" /\ lastWait'[r] \in WaitErrs)
            => (pc'[r] = "idle" /\ ret'[r] = Ready(lastWait'[r]))]_vars

\* C7 witness: the wait failed after a poll_next that was Ready (no interest
\* registered), where a child still running would have made poll loop.
C7_Witness ==
    /\ pc["a"] = "idle"
    /\ ~dropped["a"]
    /\ lastWait["a"] \in WaitErrs
    /\ ret["a"] = Ready(lastWait["a"])
    /\ lastSignal["a"] = StreamItem
    /\ ~registered_interest["a"]

\* C8 as stated: when poll_next returns Ready(None) and the child is found
\* still running, the invocation ends with an error: it neither loops nor
\* returns Pending.
C8_ExhaustionIsFatal ==
    [][\A r \in Built :
         (pc[r] = "wait" /\ lastSignal[r] = StreamEnd /\ lastWait'[r] = StillRunning)
            => (pc'[r] = "idle" /\ ret'[r] \in {Ready(Err(e)) : e \in Errors})]_vars

\* C9 as stated: every invocation of poll returns, also on a stream that is
\* Ready at every poll_next while the child keeps running.
C9_PollReturns ==
    \A r \in Reapers :
        (r \in Built /\ pc[r] # "idle") ~> (r \in Built /\ pc[r] = "idle")

\* C10: a kill() calls the kill of the handle once and returns what it
\* returned; it sweeps nothing, pushes nothing, waits on nothing, polls no
\* stream, and the handle stays in the slot.
C10_KillDelegation ==
    [][killsLeft' # killsLeft =>
         \E r \in Built :
            /\ total_kills' = [total_kills EXCEPT ![r] = @ + 1]
            /\ killRet'[r] = handleKill'[r]
            /\ inner[r] = "Some"
            /\ inner' = inner
            /\ total_reaps' = total_reaps
            /\ queue' = queue
            /\ all_enqueued' = all_enqueued
            /\ total_waits' = total_waits
            /\ total_polls' = total_polls
            /\ ret' = ret]_vars

\* C10 witness: the kill of the handle failed and kill() returned the failure.
C10_Witness ==
    /\ total_kills["a"] = 1
    /\ killRet["a"] = Err("EIO")
    /\ handleKill["a"] = Err("EIO")
    /\ inner["a"] = "Some"
    /\ total_reaps = 0
    /\ total_waits["a"] = 0

\* ---------------------------------------------------------------- C16..C20
ReadyOks == {Ready(Ok(s)) : s \in ExitStatuses}

C17_StepOrder ==
    /\ [](\A r \in Built :
            callPolls[r] < MaxCount =>
              /\ pc[r] = "signal"
                    => (callReaps[r] = callPolls[r] /\ callWaits[r] = callPolls[r])
              /\ pc[r] = "reap"
                    => (callReaps[r] + 1 = callPolls[r]
                        /\ callWaits[r] + 1 = callPolls[r])
              /\ pc[r] = "wait"
                    => (callReaps[r] = callPolls[r]
                        /\ callWaits[r] + 1 = callPolls[r])
              /\ callWaits[r] <= callReaps[r]
              /\ callReaps[r] <= callPolls[r])
    /\ [][\A r \in Built :
            /\ (pc[r] = "signal" /\ pc'[r] # "signal")
                  => (pc'[r] \in {"reap", "idle"}
                      /\ callPolls'[r] = Bump(callPolls[r])
                      /\ callWaits'[r] = callWaits[r])
            /\ (pc[r] = "reap" /\ pc'[r] # "reap")
                  => (pc'[r] = "wait"
                      /\ callReaps'[r] = Bump(callReaps[r])
                      /\ total_reaps' = Bump(total_reaps))
            /\ (~dropped'[r] /\ total_waits'[r] # total_waits[r])
                  => (pc[r] = "wait" /\ pc'[r] \in {"signal", "idle"})]_vars

\* C17 witness: the second iteration of an invocation is at its try_wait,
\* after a sweep made while the child had already exited.
C17_Witness ==
    /\ pc["a"] = "wait"
    /\ callPolls["a"] = 2
    /\ callReaps["a"] = 2
    /\ callWaits["a"] = 1
    /\ child["a"] # None
    /\ lastWait["a"] = NoCall

\* C18: whenever poll has returned and no poll_next of the Reaper has
\* reported an error, poll_next, reap_orphans and the Reaper's try_wait have
\* been called the same number of times, and nothing has been pushed into
\* the orphan queue.
C18_CounterEquality ==
    \A r \in Built :
        (~dropped[r] /\ pc[r] = "idle" /\ ~signalFailed[r])
           => /\ total_polls[r] = total_reaps
              /\ total_reaps = total_waits[r]
              /\ all_enqueued = <<>>
              /\ queue = {}

\* C18 witness: three polls (one that looped) and a kill, all counters at 4.
C18_Witness ==
    /\ ~dropped["a"]
    /\ pc["a"] = "idle"
    /\ ~signalFailed["a"]
    /\ total_polls["a"] = 3
    /\ total_waits["a"] = 3
    /\ total_reaps = 3
    /\ callPolls["a"] = 2
    /\ ret["a"] \in ReadyOks

\* C19: the step that drops a Reaper calls try_wait on its handle once and
\* otherwise at most pushes the handle: no sweep, no kill, no poll_next, no
\* try_wait on another handle; it does not depend on the state of the stream.
C19_DropSingleStep ==
    [][\A r \in Built :
         (~dropped[r] /\ dropped'[r])
            => /\ total_waits[r] < MaxCount
                     => total_waits'[r] = total_waits[r] + 1
               /\ \A h \in Built \ {r} : total_waits'[h] = total_waits[h]
               /\ total_reaps' = total_reaps
               /\ total_kills' = total_kills
               /\ handleKill' = handleKill
               /\ total_polls' = total_polls
               /\ <<values', mode', lastSignal'>> = <<values, mode, lastSignal>>
               /\ <<pc', ret', killRet'>> = <<pc, ret, killRet>>
               /\ queue \subseteq queue'
               /\ queue' \subseteq queue \cup {r}]_vars

\* C19 witness: dropped after the stream has ended; the one try_wait of drop
\* comes on top of those of poll.
C19_Witness ==
    /\ dropped["a"]
    /\ mode["a"] = "closed"
    /\ lastSignal["a"] = StreamEnd
    /\ lastWait["a"] \in WaitExits
    /\ total_polls["a"] = 2
    /\ total_reaps = 2
    /\ total_waits["a"] = 3
    /\ inner["a"] = "Some"

\* C20: an invocation of poll made after poll returned Ready(Ok(status)), in
\* which neither poll_next nor try_wait fails, returns Ready(Ok(status))
\* again after one poll_next, one sweep and one try_wait; it returns neither
\* Pending nor a panic on an empty slot.
C20_PollAfterCompletion ==
    [][\A r \in Built :
         (ret[r] \in ReadyOks /\ pc[r] # "idle" /\ pc'[r] = "idle"
            /\ lastSignal'[r] \notin StreamErrs /\ lastWait'[r] \notin WaitErrs)
            => /\ ret'[r] = ret[r]
               /\ inner'[r] = "Some"
               /\ callPolls'[r] = 1
               /\ callReaps'[r] = 1
               /\ callWaits'[r] = 1]_vars

\* C20 witness: the second poll after completion has returned the status.
C20_Witness ==
    /\ ret["a"] \in ReadyOks
    /\ pc["a"] = "idle"
    /\ total_polls["a"] = 3
    /\ total_waits["a"] = 3
    /\ callWaits["a"] = 1
    /\ lastWait["a"] = Ok(child["a"])
    /\ lastSignal["a"] = Pending
    /\ idlePolls = 0

\* C13 as stated: an invocation whose poll_next was Pending and whose
\* try_wait found the child running returns Pending having made one stream
\* poll more than try_waits that found the child running.  (Every try_wait
\* of an invocation that returns Pending found the child running: any
\* other result returns at once.)
C13_Original ==
    \A r \in Built :
        (~dropped[r] /\ pc[r] = "idle" /\ lastSignal[r] = Pending
           /\ lastWait[r] = StillRunning /\ callPolls[r] < MaxCount)
           => (ret[r] = Pending /\ callPolls[r] = callWaits[r] + 1)

\* C13 as amended: such an invocation returns Pending from that iteration,
\* having made as many stream polls as try_waits that found the child
\* running: each iteration pairs one poll_next with the one try_wait that
\* follows it.
C13_InterestBeforeCheck ==
    [][\A r \in Built :
         (pc[r] = "wait" /\ pc'[r] # "wait" /\ lastSignal[r] = Pending
            /\ lastWait'[r] = StillRunning)
            => /\ pc'[r] = "idle"
               /\ ret'[r] = Pending
               /\ callPolls'[r] = callWaits'[r]
               /\ callPolls[r] < MaxCount => callWaits'[r] = callWaits[r] + 1
               /\ callPolls[r] < MaxCount => callPolls[r] = callWaits[r] + 1]_vars

\* C13 witness: Pending returned from the second iteration of an invocation.
C13_Witness ==
    /\ pc["a"] = "idle"
    /\ ~dropped["a"]
    /\ ret["a"] = Pending
    /\ lastSignal["a"] = Pending
    /\ lastWait["a"] = StillRunning
    /\ callPolls["a"] = 2
    /\ callWaits["a"] = 2

\* --------------------------------------------------------------------- C12
\* The stream of the example: Pending, Ready, Pending, Pending, Pending.
ExampleScript == <<None, Some("unit"), None, None, None>>

\* The Reaper is the example's, on a MockWait that reports the status
\* "exit0" at try_wait number n + 1 and has not been dropped.
ExampleRun(r, n) == mock[r] = <<n, "exit0", ExampleScript>> /\ ~dropped[r]

\* The k-th poll of the test has returned.
Returned(r, k) == testPolls = k /\ pc[r] = "idle"

\* the invocation made p stream polls, p sweeps and p try_waits, which
\* brought the script to c consumed items and the handle to c try_waits
Counts(r, p, c) ==
    /\ callPolls[r] = p
    /\ callReaps[r] = p
    /\ callWaits[r] = p
    /\ Len(values[r]) + c = Len(ExampleScript)
    /\ total_polls[r] = c
    /\ total_reaps = c
    /\ total_waits[r] = c

\* C12 as stated: with the status reported at try_wait number 3, the first
\* poll returns Pending after 1 stream poll, 1 sweep and 1 try_wait, the
\* second returns Pending after 2 of each, and the third returns
\* Ready(Ok(exit0)).
C12_Original ==
    \A r \in Built :
        ExampleRun(r, 2) =>
            /\ Returned(r, 1) => (ret[r] = Pending /\ Counts(r, 1, 1))
            /\ Returned(r, 2) => (ret[r] = Pending /\ Counts(r, 2, 3))
            /\ Returned(r, 3) => ret[r] = Ready(Ok("exit0"))

\* C12 as amended: with the status reported at try_wait number 4, the first
\* poll returns Pending after 1 stream poll, 1 sweep and 1 try_wait, the
\* second returns Pending after 2 of each, and the third returns
\* Ready(Ok(exit0)) after 1 of each; nothing is pushed into the queue.
C12_ExampleTrace ==
    \A r \in Built :
        ExampleRun(r, 3) =>
            /\ Returned(r, 1) => (ret[r] = Pending /\ Counts(r, 1, 1))
            /\ Returned(r, 2) => (ret[r] = Pending /\ Counts(r, 2, 3))
            /\ Returned(r, 3) => (ret[r] = Ready(Ok("exit0")) /\ Counts(r, 1, 4))
            /\ all_enqueued = <<>>

\* C12 witness: the third poll of the example has returned.
C12_Witness ==
    /\ ExampleRun("a", 3)
    /\ Returned("a", 3)
    /\ ret["a"] = Ready(Ok("exit0"))
    /\ values["a"] = <<None>>

\* --------------------------------------------------------- C11, C14, C15
OwnedByReaper(r) == ~dropped[r] /\ inner[r] = "Some"
OwnedByQueue(r) == r \in queue

\* C11 as stated: every handle is owned by its Reaper or by the orphan
\* queue, never by both, never pushed twice, and by neither only once its
\* child has exited.
C11_Original ==
    \A r \in Built :
        /\ ~(OwnedByReaper(r) /\ OwnedByQueue(r))
        /\ Pushes(r) <= 1
        /\ (~OwnedByReaper(r) /\ ~OwnedByQueue(r)) => Exited(r)

\* C11 as amended: never both, never pushed twice; a handle owned by neither
\* was found exited by the try_wait of drop, or was pushed and then removed
\* by a sweep, and a sweep removes a handle only when its child has exited or
\* its try_wait failed.
C11_ExclusiveOwnership ==
    /\ [](\A r \in Built :
            /\ ~(OwnedByReaper(r) /\ OwnedByQueue(r))
            /\ Pushes(r) <= 1
            /\ (~OwnedByReaper(r) /\ ~OwnedByQueue(r))
                  => (lastWait[r] \in WaitExits \/ Pushes(r) = 1)
            /\ OwnedByQueue(r) => (dropped[r] /\ inner[r] = "None"))
    /\ [][\A r \in Built :
            (r \in queue /\ r \notin queue')
               => /\ \E q \in Built : pc[q] = "reap" /\ pc'[q] = "wait"
                  /\ Exited(r) \/ faults' < faults]_vars

\* C11 witness: a was dropped, pushed and swept by a poll of b after its
\* child exited; b was then killed and dropped with its child running.
C11_Witness ==
    /\ Pushes("a") = 1
    /\ "a" \notin queue
    /\ Exited("a")
    /\ dropped["b"]
    /\ queue = {"b"}
    /\ total_kills["b"] = 1
    /\ all_enqueued = <<"a", "b">>

\* No Reaper is left that the executor would still poll.
NobodyPolls == \A r \in Built : dropped[r] \/ ret[r] \in ReadyOks

\* C14: a sweep made by a poll removes every orphan whose child has exited;
\* and an orphan whose child has exited is eventually out of the queue, as
\* long as a Reaper is left that is still polled.
C14_OrphansReclaimed ==
    /\ [][\A h \in Built :
            (h \in queue /\ Exited(h)
               /\ \E r \in Built : pc[r] = "reap" /\ pc'[r] # "reap")
               => h \notin queue']_vars
    /\ \A h \in Reapers :
          (h \in Built /\ h \in queue /\ Exited(h))
             ~> (h \notin queue \/ NobodyPolls)

\* C14 witness: a was dropped with its child running, the child exited, and
\* the sweep of a later poll of b took it out.
C14_Witness ==
    /\ Pushes("a") = 1
    /\ "a" \notin queue
    /\ Exited("a")
    /\ ~dropped["b"]
    /\ ~Exited("b")
    /\ ret["b"] = Pending
    /\ total_reaps = 2

\* C15: every Reaper whose child has exited reaches Ready(Ok(status)) with
\* the status of its own child, unless it is dropped first; and a poll_next
\* on the cursor of one Reaper leaves the notification, the registration and
\* the wakeup of every other cursor as they were.
C15_CoalescedBroadcast ==
    /\ \A r \in Reapers :
          (r \in Built /\ Exited(r) /\ ~dropped[r])
             ~> (dropped[r] \/ Resolved(r))
    /\ [][\A r \in Built :
            (pc[r] = "signal" /\ pc'[r] # "signal")
               => \A q \in Built \ {r} :
                     /\ armed'[q] = armed[q]
                     /\ woken'[q] = woken[q]
                     /\ notified'[q] = notified[q]]_vars

\* C15 witness: both children exited with different statuses, each cursor
\* yielded one item, and both Reapers returned their own child's status at
\* their second poll_next.
C15_Witness ==
    /\ Resolved("a")
    /\ Resolved("b")
    /\ child["a"] # child["b"]
    /\ total_polls["a"] = 2
    /\ total_polls["b"] = 2
    /\ lastSignal["a"] = StreamItem
    /\ lastSignal["b"] = StreamItem
    /\ ~sigchld
    /\ ~notified["a"]
    /\ ~notified["b"]

=============================================================================
